---- MODULE Spec2Model ----
(***************************************************************************)
(* Model of process_excel.py: the row classifier                           *)
(* (extract_categories_and_medicines), the tree assembler                  *)
(* (build_category_tree, update_medicine_count_recursive) and the          *)
(* per-sheet driver (main).                                                *)
(*                                                                         *)
(* Encoding of Python values:                                              *)
(*   - a str is a sequence of one-character strings, so that strip() and   *)
(*     len() are computed; the empty str is << >>;                         *)
(*   - a cell of the data frame is [na |-> BOOLEAN, s |-> str];            *)
(*   - None is the one-element sequence None, which is no str because its  *)
(*     element is not a single character;                                  *)
(*   - a dict that is iterated is a sequence of entries [k |-> , v |-> ]   *)
(*     in insertion order; a dict used as a record is a TLA+ function      *)
(*     whose DOMAIN is its key set;                                        *)
(*   - dict objects that are shared by reference live in two heaps: recs   *)
(*     (category records) and subs (subcategories dicts); a reference is   *)
(*     an index into the heap.                                             *)
(***************************************************************************)
EXTENDS Integers, Sequences, FiniteSets, TLC

VARIABLES
    sheet_name,      \* argument sheet_name of extract_categories_and_medicines
    ncols,           \* number of columns of df (every row has this length)
    df,              \* keys of the rows iterated so far, in order (idx = position - 1)
    categories,      \* dict code -> reference into recs, in insertion order
    medicines,       \* list of medicine dicts
    category_stack,  \* list of tuples <<code, cat_name, level>>
    recs,            \* heap of category record dicts
    subs,            \* heap of subcategories dicts (code -> reference into recs)
    pc,              \* position in extract_categories_and_medicines
    sheet_data,      \* the returned {'categories': tree, 'medicines': medicines}
    again,           \* tree of a second assembly of the same flat mapping
    visited,         \* nodes update_medicine_count_recursive was called on by
                     \* the last assembly, in call order
    sheet_names,     \* main: xl.sheet_names
    sheet_i,         \* main: index (from 0) of the sheet the for loop is at
    sheets_read,     \* main: the data frames read so far, one per sheet
    files,           \* main: output files written, sheet name -> dumped data
    main_pc,         \* main: position of the driver
    calls,           \* activations of extract_categories_and_medicines that run
                     \* side by side: sheet name, rows read, position, result
    frames           \* the local variables of those activations

classifier_vars == <<sheet_name, ncols, df, categories, medicines, category_stack,
                     recs, subs, pc, sheet_data, again, visited>>
main_vars == <<sheet_names, sheet_i, sheets_read, files, main_pc>>
call_vars == <<calls, frames>>
vars == <<sheet_name, ncols, df, categories, medicines, category_stack,
          recs, subs, pc, sheet_data, again, visited,
          sheet_names, sheet_i, sheets_read, files, main_pc, calls, frames>>

----------------------------------------------------------------------------
(* Bounds of the model *)

\* rows of a sheet after the two leading rows
MaxRows == 4
\* header rows of a sheet in the header-only specification
MaxHeaderRows == 5
\* sheets of a workbook
MaxSheets == 3
\* rows of a workbook sheet after the two leading rows
MaxMainRows == 2
\* records of a flat mapping handed to build_category_tree
MaxFlat == 3

----------------------------------------------------------------------------
(* Python values *)

None == <<"<None>">>
Whitespace == {" "}
EmptyStr == << >>

NaN == [na |-> TRUE, s |-> EmptyStr]
Txt(s) == [na |-> FALSE, s |-> s]

RECURSIVE lstrip(_)
lstrip(s) ==
    IF s # << >> /\ Head(s) \in Whitespace THEN lstrip(Tail(s)) ELSE s

RECURSIVE rstrip(_)
rstrip(s) ==
    IF s # << >> /\ s[Len(s)] \in Whitespace
    THEN rstrip(SubSeq(s, 1, Len(s) - 1)) ELSE s

strip(s) == rstrip(lstrip(s))

clean_text(text) == IF text.na THEN EmptyStr ELSE strip(text.s)

\* ordered dict: sequence of entries [k, v]
DictKeys(d) == {d[i].k : i \in 1..Len(d)}
DictHas(d, k) == \E i \in 1..Len(d) : d[i].k = k
DictGet(d, k) == d[CHOOSE i \in 1..Len(d) : d[i].k = k].v
DictSet(d, k, v) ==
    IF DictHas(d, k)
    THEN [i \in 1..Len(d) |-> IF d[i].k = k THEN [k |-> k, v |-> v] ELSE d[i]]
    ELSE Append(d, [k |-> k, v |-> v])

\* comprehension [x for x in xs if x]
RECURSIVE NonEmpty(_)
NonEmpty(xs) ==
    IF xs = << >> THEN << >>
    ELSE IF Head(xs) # EmptyStr THEN <<Head(xs)>> \o NonEmpty(Tail(xs))
    ELSE NonEmpty(Tail(xs))

\* delimiter.join(xs)
RECURSIVE join(_, _)
join(delim, xs) ==
    IF xs = << >> THEN EmptyStr
    ELSE IF Len(xs) = 1 THEN xs[1]
    ELSE xs[1] \o delim \o join(delim, Tail(xs))

----------------------------------------------------------------------------
(* The rows the model reads.  A row key names a row of 19 cells; the row  *)
(* of a data frame with ncols columns is its first ncols cells.            *)

TemplateCells(k) ==
    [i \in 0..18 |->
        CASE k = "empty" -> NaN
          [] k = "blank" -> IF i = 0 THEN Txt(<<" ">>) ELSE NaN
          [] k = "hA"    -> IF i = 0 THEN Txt(<<"A">>)
                            ELSE IF i = 2 THEN Txt(<<" ", "G">>) ELSE NaN
          [] k = "hB"    -> IF i = 0 THEN Txt(<<"B", " ">>)
                            ELSE IF i = 1 THEN Txt(<<"H">>)
                            ELSE IF i = 2 THEN Txt(<<"G">>) ELSE NaN
          [] k = "hAB"   -> IF i = 0 THEN Txt(<<"A", "B">>)
                            ELSE IF i = 1 THEN Txt(<<" ">>)
                            ELSE IF i = 13 THEN Txt(<<"K">>) ELSE NaN
          [] k = "hBA"   -> IF i = 0 THEN Txt(<<"B", "A">>) ELSE NaN
          [] k = "hABA"  -> IF i = 0 THEN Txt(<<" ", "A", "B", "A">>)
                            ELSE IF i = 1 THEN Txt(<<"L">>) ELSE NaN
          [] k = "item13" -> IF i = 13 THEN Txt(<<" ", "P">>)
                            ELSE IF i = 15 THEN Txt(<<"D">>)
                            ELSE IF i = 17 THEN Txt(<<"N">>) ELSE NaN
          [] k = "item12" -> IF i = 0 THEN Txt(<<" ">>)
                            ELSE IF i = 12 THEN Txt(<<"Q">>)
                            ELSE IF i = 16 THEN Txt(<<"S">>)
                            ELSE IF i = 18 THEN Txt(<<"V">>) ELSE NaN]

HeaderRows == {"hA", "hB", "hAB", "hBA", "hABA"}
Rows == {"empty", "hA", "hB", "hAB", "item13", "item12"}
\* the two leading rows of a sheet: a row with a first cell, a row with a name
LeadRows == <<"hA", "item13">>
MainRows == {"hA", "item13"}
Widths == {0, 13, 19}

\* every row of every width, as a sequence of cells: row[i + 1] is row.iloc[i]
RowTable ==
    [k \in Rows \cup HeaderRows \cup MainRows |->
        [width \in Widths |-> [j \in 1..width |-> TemplateCells(k)[j - 1]]]]

RowOf(k, width) == RowTable[k][width]

----------------------------------------------------------------------------
(* extract_categories_and_medicines: the column map *)

NoColumns == [x \in {} |-> x]

\* sheet names: xiyao = '西药部分', zhongchengyao = '中成药部分',
\* xieyi_xiyao = '协议西药', xieyi_zhongchengyao = '协议中成药',
\* jingjia = '竞价药品部分'.  A field that is a list in the source has
\* list |-> TRUE (what isinstance(col_map['note'], list) tests).
Negotiated ==
    [name |-> <<12, 13>>, payment_standard |-> <<14, 15, 16>>,
     note |-> [list |-> FALSE, v |-> 17], validity_period |-> 18]

sheet_col_map ==
    [n \in {"xiyao", "zhongchengyao", "xieyi_xiyao", "xieyi_zhongchengyao", "jingjia"} |->
        CASE n = "xiyao" ->
                [name |-> <<13, 14>>, dosage |-> 15, note |-> [list |-> FALSE, v |-> 17]]
          [] n = "zhongchengyao" ->
                [name |-> <<13, 14, 15>>, note |-> [list |-> TRUE, v |-> <<16, 17, 18>>]]
          [] OTHER -> Negotiated]

\* sheet_col_map.get(sheet_name, {})
col_map_of(name) ==
    IF name \in DOMAIN sheet_col_map THEN sheet_col_map[name] ELSE NoColumns

Sheets == {"xiyao", "xieyi_xiyao", "other"}

----------------------------------------------------------------------------
(* extract_categories_and_medicines: reading a row *)

\* row.isna().all()
isna_all(row) == \A j \in DOMAIN row : row[j].na

\* the guard "i < len(row)" of a configured column
in_row_off_by_one(i, row) == i <= Len(row)
in_row(i, row) == i < Len(row)

\* row.iloc[i] raises IndexError when i is no position of the row
iloc_raises(row, i) == (i + 1) \notin DOMAIN row

\* clean_text(row.iloc[i]) if i < len(row) else ''
cell(row, i) ==
    IF in_row(i, row) /\ ~iloc_raises(row, i) THEN clean_text(row[i + 1]) ELSE EmptyStr

\* whether evaluating that expression raises
cell_raises(row, i) == in_row(i, row) /\ iloc_raises(row, i)

\* "if idx < 2: continue" and "if row.isna().all(): continue"
skips_one_leading_row(idx, row) == idx < 1 \/ isna_all(row)
skips(idx, row) == idx < 2 \/ isna_all(row)

\* first_col of the row (row.iloc[0] is read unguarded)
first_col(row) == IF iloc_raises(row, 0) THEN EmptyStr ELSE clean_text(row[1])

\* the loop of lines 36-41: the first non-empty cleaned cell from the second on
cat_name_of(row) ==
    LET filled == {i \in 1..(Len(row) - 1) : clean_text(row[i + 1]) # EmptyStr}
    IN  IF filled = {} THEN EmptyStr
        ELSE clean_text(row[(CHOOSE i \in filled : \A j \in filled : i <= j) + 1])

\* the loop of lines 61-65 over col_map['name']: the position in the list at
\* which the loop stops (a non-empty name or a raising read), 0 if it runs out
name_stop(col_map, row) ==
    IF "name" \notin DOMAIN col_map THEN 0
    ELSE LET cols == col_map.name
             hits == {j \in 1..Len(cols) :
                         cell_raises(row, cols[j]) \/ cell(row, cols[j]) # EmptyStr}
         IN  IF hits = {} THEN 0 ELSE CHOOSE j \in hits : \A h \in hits : j <= h

name_of(col_map, row) ==
    LET j == name_stop(col_map, row)
    IN  IF j = 0 THEN EmptyStr ELSE cell(row, col_map.name[j])

name_raises(col_map, row) ==
    LET j == name_stop(col_map, row)
    IN  j # 0 /\ cell_raises(row, col_map.name[j])

\* the columns lines 82-97 read for the optional fields
other_columns(col_map) ==
    (IF "dosage" \in DOMAIN col_map THEN {col_map.dosage} ELSE {})
    \cup (IF "payment_standard" \in DOMAIN col_map
          THEN {col_map.payment_standard[j] : j \in 1..Len(col_map.payment_standard)}
          ELSE {})
    \cup (IF "note" \in DOMAIN col_map
          THEN IF col_map.note.list
               THEN {col_map.note.v[j] : j \in 1..Len(col_map.note.v)}
               ELSE {col_map.note.v}
          ELSE {})
    \cup (IF "validity_period" \in DOMAIN col_map THEN {col_map.validity_period} ELSE {})

cells(row, cols) == [j \in 1..Len(cols) |-> cell(row, cols[j])]

\* lines 82-97: the optional fields of the medicine dict
other_fields(col_map, row) ==
    (IF "dosage" \in DOMAIN col_map
     THEN [dosage |-> cell(row, col_map.dosage)] ELSE NoColumns)
    @@ (IF "payment_standard" \in DOMAIN col_map
        THEN [payment_standard |-> NonEmpty(cells(row, col_map.payment_standard))]
        ELSE NoColumns)
    @@ (IF "note" \in DOMAIN col_map
        THEN [note |-> IF col_map.note.list
                       THEN join(<<";">>, NonEmpty(cells(row, col_map.note.v)))
                       ELSE cell(row, col_map.note.v)]
        ELSE NoColumns)
    @@ (IF "validity_period" \in DOMAIN col_map
        THEN [validity_period |-> cell(row, col_map.validity_period)] ELSE NoColumns)

----------------------------------------------------------------------------
(* extract_categories_and_medicines: the loop body.  L is the record of  *)
(* the function's locals (categories, medicines, category_stack), the two *)
(* heaps, and err: the exception raised, "none" if none.                  *)

Locals(c, m, st, r, sb) ==
    [categories |-> c, medicines |-> m, category_stack |-> st,
     recs |-> r, subs |-> sb, err |-> "none"]

Top(stack) == stack[Len(stack)]

\* lines 44-45: while category_stack and len(code) <= len(category_stack[-1][0])
RECURSIVE pop_shorter_only(_, _)
pop_shorter_only(stack, code) ==
    IF stack # << >> /\ Len(code) < Len(Top(stack)[1])
    THEN pop_shorter_only(SubSeq(stack, 1, Len(stack) - 1), code)
    ELSE stack

RECURSIVE pop_stack(_, _)
pop_stack(stack, code) ==
    IF stack # << >> /\ Len(code) <= Len(Top(stack)[1])
    THEN pop_stack(SubSeq(stack, 1, Len(stack) - 1), code)
    ELSE stack

\* lines 48-55: the record registered under the code; its subcategories is a
\* new empty dict (the next free reference of the subs heap)
new_category(code, cat_name, level, parent_code, subs_ref) ==
    [code |-> code, name |-> cat_name, level |-> level, parent_code |-> parent_code,
     subcategories |-> subs_ref, medicine_count |-> 0]

\* lines 34-57: a category row
header_row(L, row) ==
    LET code == first_col(row)
        cat_name == cat_name_of(row)
        stack == pop_stack(L.category_stack, code)
        parent_code == IF stack # << >> THEN Top(stack)[1] ELSE None
        level == Len(stack) + 1
        subs_ref == Len(L.subs) + 1
        rec_ref == Len(L.recs) + 1
    IN  [L EXCEPT
            !.subs = Append(@, << >>),
            !.recs = Append(@, new_category(code, cat_name, level, parent_code, subs_ref)),
            !.categories = DictSet(@, code, rec_ref),
            !.category_stack = Append(stack, <<code, cat_name, level>>)]

\* lines 74-75 reading the bottom of the stack: category_stack[0]
category_fields_of_root(L) ==
    LET specific_category_code == L.category_stack[1][1]
    IN  [category_code |-> specific_category_code,
         category_name |-> L.recs[DictGet(L.categories, specific_category_code)].name,
         all_category_codes |->
            [j \in 1..Len(L.category_stack) |-> L.category_stack[j][1]]]

\* lines 74-80: the category fields of a medicine when the stack is not empty
category_fields(L) ==
    LET specific_category_code == Top(L.category_stack)[1]
    IN  [category_code |-> specific_category_code,
         category_name |-> L.recs[DictGet(L.categories, specific_category_code)].name,
         all_category_codes |->
            [j \in 1..Len(L.category_stack) |-> L.category_stack[j][1]]]

\* lines 68-98 without line 80: the medicine is appended, no count is raised
item_row_uncounted(L, name, idx, row, sheet) ==
    [L EXCEPT
        !.medicines =
            Append(@, [id |-> <<sheet, idx>>, name |-> name, sheet |-> sheet]
                      @@ (IF L.category_stack # << >> THEN category_fields(L)
                          ELSE NoColumns)
                      @@ other_fields(col_map_of(sheet), row))]

\* lines 68-98: a medicine row whose name was found
item_row(L, name, idx, row, sheet) ==
    LET col_map == col_map_of(sheet)
        medicine == [id |-> <<sheet, idx>>, name |-> name, sheet |-> sheet]
        attached == L.category_stack # << >>
        code == Top(L.category_stack)[1]
    IN  IF attached /\ ~DictHas(L.categories, code)
        THEN [L EXCEPT !.err = "KeyError"]
        ELSE IF \E i \in other_columns(col_map) : cell_raises(row, i)
        THEN [L EXCEPT !.err = "IndexError"]
        ELSE [L EXCEPT
                !.recs = IF attached
                         THEN [@ EXCEPT ![DictGet(L.categories, code)].medicine_count = @ + 1]
                         ELSE @,
                !.medicines =
                    Append(@, medicine
                              @@ (IF attached THEN category_fields(L) ELSE NoColumns)
                              @@ other_fields(col_map, row))]

\* lines 28-98: one iteration of "for idx, row in df.iterrows()"
process_row(L, idx, row, sheet) ==
    IF skips(idx, row) THEN L
    ELSE IF iloc_raises(row, 0) THEN [L EXCEPT !.err = "IndexError"]
    ELSE IF first_col(row) # EmptyStr THEN header_row(L, row)
    ELSE IF name_raises(col_map_of(sheet), row) THEN [L EXCEPT !.err = "IndexError"]
    ELSE IF name_of(col_map_of(sheet), row) = EmptyStr THEN L
    ELSE item_row(L, name_of(col_map_of(sheet), row), idx, row, sheet)

----------------------------------------------------------------------------
(* build_category_tree.  The argument is the flat mapping (code ->         *)
(* reference of the record); the heaps are passed and returned because the *)
(* function allocates and writes dicts.                                    *)

\* line 110 without the copy: nodes = categories, the records themselves
copy_nodes_alias(cats, heap_recs) ==
    [recs |-> heap_recs, nodes |-> cats]

\* line 110: nodes = {code: dict(cat) ...}, a shallow copy of every record:
\* the copy of the j-th record is a new record with the same field values,
\* its subcategories still the reference of the original's dict
copy_nodes(cats, heap_recs) ==
    [recs |-> heap_recs \o [j \in 1..Len(cats) |-> heap_recs[cats[j].v]],
     nodes |-> [j \in 1..Len(cats) |-> [k |-> cats[j].k, v |-> Len(heap_recs) + j]]]

\* lines 112-113 left out: every copy keeps the subcategories dict of the
\* record it was copied from
reset_subcategories_skipped(nodes, j, heap_recs, heap_subs) ==
    [recs |-> heap_recs, subs |-> heap_subs]

\* lines 112-113: every node gets a new empty subcategories dict
RECURSIVE reset_subcategories(_, _, _, _)
reset_subcategories(nodes, j, heap_recs, heap_subs) ==
    IF j > Len(nodes) THEN [recs |-> heap_recs, subs |-> heap_subs]
    ELSE reset_subcategories(nodes, j + 1,
            [heap_recs EXCEPT ![nodes[j].v].subcategories = Len(heap_subs) + 1],
            Append(heap_subs, << >>))

\* line 118: "if parent_code and parent_code in nodes"
has_parent_node(parent_code, nodes) ==
    parent_code # None /\ parent_code # EmptyStr /\ DictHas(nodes, parent_code)

\* lines 116-121 with every node also placed at the top level
RECURSIVE attach_and_list_all(_, _, _, _, _)
attach_and_list_all(nodes, j, heap_recs, heap_subs, tree) ==
    IF j > Len(nodes) THEN [subs |-> heap_subs, tree |-> tree]
    ELSE LET code == nodes[j].k
             node == nodes[j].v
             parent_code == heap_recs[node].parent_code
         IN  IF has_parent_node(parent_code, nodes)
             THEN LET d == heap_recs[DictGet(nodes, parent_code)].subcategories
                  IN  attach_and_list_all(nodes, j + 1, heap_recs,
                             [heap_subs EXCEPT ![d] = DictSet(@, code, node)],
                             DictSet(tree, code, node))
             ELSE attach_and_list_all(nodes, j + 1, heap_recs, heap_subs,
                                      DictSet(tree, code, node))

\* lines 116-121: hang every node under its parent's node, or make it a root
RECURSIVE attach(_, _, _, _, _)
attach(nodes, j, heap_recs, heap_subs, tree) ==
    IF j > Len(nodes) THEN [subs |-> heap_subs, tree |-> tree]
    ELSE LET code == nodes[j].k
             node == nodes[j].v
             parent_code == heap_recs[node].parent_code
         IN  IF has_parent_node(parent_code, nodes)
             THEN LET d == heap_recs[DictGet(nodes, parent_code)].subcategories
                  IN  attach(nodes, j + 1, heap_recs,
                             [heap_subs EXCEPT ![d] = DictSet(@, code, node)], tree)
             ELSE attach(nodes, j + 1, heap_recs, heap_subs, DictSet(tree, code, node))

\* lines 108-122
build_category_tree(cats, heap_recs, heap_subs) ==
    LET copied == copy_nodes(cats, heap_recs)
        cleared == reset_subcategories(copied.nodes, 1, copied.recs, heap_subs)
        hung == attach(copied.nodes, 1, cleared.recs, cleared.subs, << >>)
    IN  [recs |-> cleared.recs, subs |-> hung.subs,
         nodes |-> copied.nodes, tree |-> hung.tree]

----------------------------------------------------------------------------
(* update_medicine_count_recursive.  depth is the number of nested calls   *)
(* still allowed: a call chain longer than the heap has records revisits a *)
(* node, and Python ends it with RecursionError.                           *)

RECURSIVE update_medicine_count_recursive(_, _, _, _)
RECURSIVE sum_subcategories(_, _, _, _, _)

\* lines 129-131: sub_total over node['subcategories'].values()
sum_subcategories(heap_recs, heap_subs, children, j, depth) ==
    IF j > Len(children) THEN [recs |-> heap_recs, ret |-> 0, err |-> "none"]
    ELSE LET one == update_medicine_count_recursive(heap_recs, heap_subs,
                                                     children[j].v, depth)
         IN  IF one.err # "none" THEN one
             ELSE LET rest == sum_subcategories(one.recs, heap_subs, children,
                                                j + 1, depth)
                  IN  [rest EXCEPT !.ret = one.ret + @]

\* lines 124-134 with line 133 as an assignment: node['medicine_count'] =
\* sub_total, the direct count dropped
update_count_from_children_only(heap_recs, heap_subs, node, depth) ==
    IF depth = 0 THEN [recs |-> heap_recs, ret |-> 0, err |-> "RecursionError"]
    ELSE LET children == heap_subs[heap_recs[node].subcategories]
         IN  IF children # << >>
             THEN LET sub == sum_subcategories(heap_recs, heap_subs, children,
                                               1, depth - 1)
                  IN  [recs |-> [sub.recs EXCEPT ![node].medicine_count = sub.ret],
                       ret |-> sub.ret, err |-> sub.err]
             ELSE [recs |-> heap_recs, ret |-> heap_recs[node].medicine_count,
                   err |-> "none"]

\* lines 124-134
update_medicine_count_recursive(heap_recs, heap_subs, node, depth) ==
    IF depth = 0 THEN [recs |-> heap_recs, ret |-> 0, err |-> "RecursionError"]
    ELSE LET direct == heap_recs[node].medicine_count
             children == heap_subs[heap_recs[node].subcategories]
         IN  IF children # << >>
             THEN LET sub == sum_subcategories(heap_recs, heap_subs, children,
                                               1, depth - 1)
                  IN  IF sub.err # "none" THEN sub
                      ELSE [recs |-> [sub.recs EXCEPT
                                         ![node].medicine_count = direct + sub.ret],
                            ret |-> direct + sub.ret, err |-> "none"]
             ELSE [recs |-> heap_recs, ret |-> direct, err |-> "none"]

\* lines 101-102: for root in category_tree.values(): update_medicine_count_recursive(root)
RECURSIVE update_roots(_, _, _, _)
update_roots(heap_recs, heap_subs, tree, j) ==
    IF j > Len(tree) THEN [recs |-> heap_recs, err |-> "none"]
    ELSE LET one == update_medicine_count_recursive(heap_recs, heap_subs,
                                                     tree[j].v, Len(heap_recs) + 1)
         IN  IF one.err # "none" THEN [recs |-> one.recs, err |-> one.err]
             ELSE update_roots(one.recs, heap_subs, tree, j + 1)

\* lines 101-102 and 129-131: the nodes update_medicine_count_recursive is
\* called on for the values of a dict of nodes, in call order: each value,
\* then inside that call the values of its subcategories
RECURSIVE calls_for(_, _, _, _)
calls_for(heap_recs, heap_subs, d, depth) ==
    IF d = << >> \/ depth = 0 THEN << >>
    ELSE <<d[1].v>>
         \o calls_for(heap_recs, heap_subs,
                      heap_subs[heap_recs[d[1].v].subcategories], depth - 1)
         \o calls_for(heap_recs, heap_subs, Tail(d), depth)

\* lines 100-102: the assembly of the flat mapping
assemble(cats, heap_recs, heap_subs) ==
    LET built == build_category_tree(cats, heap_recs, heap_subs)
        counted == update_roots(built.recs, built.subs, built.tree, 1)
    IN  [recs |-> counted.recs, subs |-> built.subs, nodes |-> built.nodes,
         tree |-> built.tree, err |-> counted.err]

\* the value json.dump writes for a dict of nodes: the nested records, the
\* references followed (a chain longer than depth is cut with "<cycle>")
RECURSIVE dump(_, _, _, _)
dump(heap_recs, heap_subs, d, depth) ==
    [j \in 1..Len(d) |->
        [k |-> d[j].k,
         v |-> IF depth = 0 THEN [code |-> <<"<cycle>">>]
               ELSE LET n == heap_recs[d[j].v]
                    IN  [code |-> n.code, name |-> n.name, level |-> n.level,
                         parent_code |-> n.parent_code,
                         medicine_count |-> n.medicine_count,
                         subcategories |->
                            dump(heap_recs, heap_subs, heap_subs[n.subcategories],
                                 depth - 1)]]]

----------------------------------------------------------------------------
(* The classifier as a state machine: one step per row of df.iterrows(),   *)
(* then the return.  The rows are the input: each step reads the next one. *)

NoResult == << >>

idx == Len(df)

InitClassifier ==
    /\ sheet_name \in Sheets
    /\ ncols \in Widths
    /\ df = << >>
    /\ categories = << >>
    /\ medicines = << >>
    /\ category_stack = << >>
    /\ recs = << >>
    /\ subs = << >>
    /\ pc = "rows"
    /\ sheet_data = NoResult
    /\ again = NoResult
    /\ visited = << >>

MainIdle ==
    /\ sheet_names = << >>
    /\ sheet_i = 0
    /\ sheets_read = << >>
    /\ files = << >>
    /\ main_pc = "idle"

\* no activation runs beside the one the classifier variables describe
NoCalls ==
    /\ calls = << >>
    /\ frames = << >>

Init == InitClassifier /\ MainIdle /\ NoCalls

\* the loop body applied to the next row r of the data frame
Step(r) ==
    LET L == Locals(categories, medicines, category_stack, recs, subs)
        n == process_row(L, idx, RowOf(r, ncols), sheet_name)
    IN  /\ df' = Append(df, r)
        /\ categories' = n.categories
        /\ medicines' = n.medicines
        /\ category_stack' = n.category_stack
        /\ recs' = n.recs
        /\ subs' = n.subs
        /\ pc' = IF n.err = "none" THEN "rows" ELSE n.err
        /\ UNCHANGED <<sheet_name, ncols, sheet_data, again, visited, main_vars,
                       call_vars>>

\* lines 28-31: a leading row or a fully empty row
SkipRow(r) ==
    /\ pc = "rows"
    /\ skips(idx, RowOf(r, ncols))
    /\ Step(r)

\* lines 32-57: a row with a first cell
HeaderRow(r) ==
    /\ pc = "rows"
    /\ ~skips(idx, RowOf(r, ncols))
    /\ iloc_raises(RowOf(r, ncols), 0) \/ first_col(RowOf(r, ncols)) # EmptyStr
    /\ Step(r)

\* lines 59-67: a row without first cell and without name
NoNameRow(r) ==
    /\ pc = "rows"
    /\ ~skips(idx, RowOf(r, ncols))
    /\ ~iloc_raises(RowOf(r, ncols), 0) /\ first_col(RowOf(r, ncols)) = EmptyStr
    /\ ~name_raises(col_map_of(sheet_name), RowOf(r, ncols))
    /\ name_of(col_map_of(sheet_name), RowOf(r, ncols)) = EmptyStr
    /\ Step(r)

\* lines 59-98: a row without first cell whose name is found
ItemRow(r) ==
    /\ pc = "rows"
    /\ ~skips(idx, RowOf(r, ncols))
    /\ ~iloc_raises(RowOf(r, ncols), 0) /\ first_col(RowOf(r, ncols)) = EmptyStr
    /\ \/ name_raises(col_map_of(sheet_name), RowOf(r, ncols))
       \/ name_of(col_map_of(sheet_name), RowOf(r, ncols)) # EmptyStr
    /\ Step(r)

\* lines 99-106: the rows are exhausted; assemble and return
Return ==
    /\ pc = "rows"
    /\ LET a == assemble(categories, recs, subs)
       IN  /\ recs' = a.recs
           /\ subs' = a.subs
           /\ sheet_data' = [categories |-> a.tree, medicines |-> medicines]
           /\ visited' = calls_for(a.recs, a.subs, a.tree, Len(a.recs) + 1)
           /\ pc' = IF a.err = "none" THEN "returned" ELSE a.err
    /\ UNCHANGED <<sheet_name, ncols, df, categories, medicines, category_stack,
                   again, main_vars, call_vars>>

\* lines 100-102 run a second time on the same flat mapping, by a caller that
\* kept the dump of the first tree
AssembleAgain ==
    /\ pc = "returned"
    /\ LET a == assemble(categories, recs, subs)
       IN  /\ recs' = a.recs
           /\ subs' = a.subs
           /\ again' = [first |-> dump(recs, subs, sheet_data.categories, Len(recs) + 1),
                        tree |-> a.tree]
           /\ visited' = calls_for(a.recs, a.subs, a.tree, Len(a.recs) + 1)
           /\ pc' = IF a.err = "none" THEN "again" ELSE a.err
    /\ UNCHANGED <<sheet_name, ncols, df, categories, medicines, category_stack,
                   sheet_data, main_vars, call_vars>>

\* the rows the next step may read
NextRows == IF idx < 2 THEN {LeadRows[idx + 1]}
            ELSE IF idx < 2 + MaxRows THEN Rows ELSE {}

Next ==
    \/ \E r \in NextRows : SkipRow(r)
    \/ \E r \in NextRows : HeaderRow(r)
    \/ \E r \in NextRows : NoNameRow(r)
    \/ \E r \in NextRows : ItemRow(r)
    \/ Return
    \/ AssembleAgain

Spec == Init /\ [][Next]_vars

----------------------------------------------------------------------------
(* The classifier on sheets of category rows only, for the stack rule.     *)

InitHeaders ==
    /\ InitClassifier
    /\ sheet_name = "xiyao"
    /\ ncols = 19
    /\ MainIdle
    /\ NoCalls

NextHeaderRows == IF idx < 2 THEN {LeadRows[idx + 1]}
                  ELSE IF idx < 2 + MaxHeaderRows THEN HeaderRows ELSE {}

NextHeaders ==
    \/ \E r \in NextHeaderRows : SkipRow(r)
    \/ \E r \in NextHeaderRows : HeaderRow(r)
    \/ Return

SpecHeaders == InitHeaders /\ [][NextHeaders]_vars

----------------------------------------------------------------------------
(* main: the driver.  A data frame is the sequence of its row keys; the    *)
(* frame of a sheet is the input read when the loop reaches the sheet.     *)

\* xl.sheet_names is a prefix of this list ("other" has no column map)
SheetNames ==
    <<"xiyao", "zhongchengyao", "xieyi_xiyao", "other", "xieyi_zhongchengyao", "jingjia">>

\* the sheets of the workbook have the widest of the widths
MainWidth == CHOOSE w \in Widths : \A v \in Widths : v <= w

SeqsUpTo(S, n) == UNION {[1..m -> S] : m \in 0..n}

Frames == {LeadRows \o rest : rest \in SeqsUpTo(MainRows, MaxMainRows)}

\* lines 27-98 over a whole data frame, stopping at an exception
RECURSIVE run_rows(_, _, _, _, _)
run_rows(L, frame, j, width, sheet) ==
    IF j > Len(frame) \/ L.err # "none" THEN L
    ELSE run_rows(process_row(L, j - 1, RowOf(frame[j], width), sheet),
                  frame, j + 1, width, sheet)

\* lines 11-106: the value returned for a data frame, its tree as json.dump
\* writes it
extract_categories_and_medicines(frame, width, sheet) ==
    LET L == run_rows(Locals(<< >>, << >>, << >>, << >>, << >>), frame, 1, width, sheet)
        a == assemble(L.categories, L.recs, L.subs)
    IN  [err |-> IF L.err # "none" THEN L.err ELSE a.err,
         categories |-> dump(a.recs, a.subs, a.tree, Len(a.recs) + 1),
         medicines |-> L.medicines]

\* the value returned for every frame under every sheet name
Extracted ==
    [frame \in Frames |->
        [name \in {SheetNames[n] : n \in 1..Len(SheetNames)} |->
            extract_categories_and_medicines(frame, MainWidth, name)]]

\* lines 151-155 with the field test left out
missing_lineage_unchecked(meds) == {}

\* lines 151-155: the indices of the medicines the loop raises ValueError for
missing_lineage(meds) ==
    {i \in 1..Len(meds) : "all_category_codes" \notin DOMAIN meds[i]}

InitMain ==
    /\ sheet_name = "xiyao"
    /\ ncols = MainWidth
    /\ df = << >>
    /\ categories = << >>
    /\ medicines = << >>
    /\ category_stack = << >>
    /\ recs = << >>
    /\ subs = << >>
    /\ pc = "idle"
    /\ sheet_data = NoResult
    /\ again = NoResult
    /\ visited = << >>
    /\ sheet_names \in {SubSeq(SheetNames, 1, n) : n \in 1..MaxSheets}
    /\ sheet_i = 0
    /\ sheets_read = << >>
    /\ files = << >>
    /\ main_pc = "loop"
    /\ NoCalls

\* lines 142-162, a sheet that passes the checks: its file is written
WriteSheet(frame) ==
    /\ main_pc = "loop"
    /\ sheet_i < Len(sheet_names)
    /\ LET name == sheet_names[sheet_i + 1]
           data == Extracted[frame][name]
       IN  /\ data.err = "none"
           /\ missing_lineage(data.medicines) = {}
           /\ files' = DictSet(files, name,
                               [categories |-> data.categories,
                                medicines |-> data.medicines])
    /\ sheets_read' = Append(sheets_read, frame)
    /\ sheet_i' = sheet_i + 1
    /\ UNCHANGED <<classifier_vars, sheet_names, main_pc, call_vars>>

\* lines 142-155, a sheet that raises: the exception leaves main
RaiseInSheet(frame) ==
    /\ main_pc = "loop"
    /\ sheet_i < Len(sheet_names)
    /\ LET name == sheet_names[sheet_i + 1]
           data == Extracted[frame][name]
       IN  /\ data.err # "none" \/ missing_lineage(data.medicines) # {}
           /\ main_pc' = IF data.err # "none" THEN data.err ELSE "ValueError"
    /\ sheets_read' = Append(sheets_read, frame)
    /\ UNCHANGED <<classifier_vars, sheet_names, sheet_i, files, call_vars>>

\* line 173: the loop is over
Finish ==
    /\ main_pc = "loop"
    /\ sheet_i = Len(sheet_names)
    /\ main_pc' = "done"
    /\ UNCHANGED <<classifier_vars, sheet_names, sheet_i, sheets_read, files,
                   call_vars>>

NextMain ==
    \/ \E frame \in Frames : WriteSheet(frame)
    \/ \E frame \in Frames : RaiseInSheet(frame)
    \/ Finish

SpecMain == InitMain /\ [][NextMain]_vars

----------------------------------------------------------------------------
(* build_category_tree and the count pass as functions of the flat mapping *)
(* they are given: the caller hands over any mapping from codes to records *)
(* whose parent_code is None, a key of the mapping or some other code.     *)

\* the keys a flat mapping may have, and a code that is never a key
FlatCodes == {<<"A">>, <<"B">>, <<"A", "B">>}
AbsentCode == <<"Z">>

\* the records a caller may put in the mapping: code, parent_code and the
\* direct medicine_count
FlatEntries ==
    [code : FlatCodes, parent_code : {None, AbsentCode} \cup FlatCodes,
     medicine_count : {0, 1}]

\* the flat mappings of at most MaxFlat records, a code being a key once
FlatInputs ==
    {flat \in UNION {[1..m -> FlatEntries] : m \in 0..MaxFlat} :
        \A i, j \in 1..Len(flat) : flat[i].code = flat[j].code => i = j}

\* line 108: the argument flat_categories, each record with its own empty
\* subcategories dict
InitTree ==
    /\ \E flat \in FlatInputs :
          /\ categories = [j \in 1..Len(flat) |-> [k |-> flat[j].code, v |-> j]]
          /\ recs = [j \in 1..Len(flat) |->
                        [new_category(flat[j].code, flat[j].code, j,
                                      flat[j].parent_code, j)
                            EXCEPT !.medicine_count = flat[j].medicine_count]]
          /\ subs = [j \in 1..Len(flat) |-> << >>]
    /\ sheet_name = "xiyao"
    /\ ncols = MainWidth
    /\ df = << >>
    /\ medicines = << >>
    /\ category_stack = << >>
    /\ pc = "rows"
    /\ sheet_data = NoResult
    /\ again = NoResult
    /\ visited = << >>
    /\ MainIdle
    /\ NoCalls

NextTree ==
    \/ Return
    \/ AssembleAgain

SpecTree == InitTree /\ [][NextTree]_vars

----------------------------------------------------------------------------

(* Activations of extract_categories_and_medicines side by side: one per   *)
(* sheet, each reading its own data frame, their steps in any order (one   *)
(* after the other included).  An activation has the objects its lines     *)
(* 13-24 create; what it returns is the dumped value.                      *)

\* the sheet name of every activation
CallSheets == <<"xiyao", "xieyi_xiyao">>

\* lines 13-15: categories = {}, medicines = [], category_stack = []
fresh_locals == Locals(<< >>, << >>, << >>, << >>, << >>)

\* lines 13-15 as assignments to module-level objects: one set of objects
\* for every activation
frame_shared(call) == CHOOSE f \in DOMAIN CallSheets : \A g \in DOMAIN CallSheets : f <= g

\* lines 13-15 are local assignments: every activation has its own objects
frame_of(call) == call

\* an activation before the call
NoCall(name) ==
    [sheet_name |-> name, df |-> << >>, pc |-> "idle", result |-> NoResult,
     interleaved |-> FALSE]

InitSheets ==
    /\ sheet_name = "xiyao"
    /\ ncols = MainWidth
    /\ df = << >>
    /\ categories = << >>
    /\ medicines = << >>
    /\ category_stack = << >>
    /\ recs = << >>
    /\ subs = << >>
    /\ pc = "idle"
    /\ sheet_data = NoResult
    /\ again = NoResult
    /\ visited = << >>
    /\ MainIdle
    /\ calls = [a \in DOMAIN CallSheets |-> NoCall(CallSheets[a])]
    /\ frames = [a \in DOMAIN CallSheets |-> fresh_locals]

\* lines 11-15: the call binds the locals
Call(a) ==
    /\ calls[a].pc = "idle"
    /\ calls' = [calls EXCEPT ![a].pc = "rows"]
    /\ frames' = [frames EXCEPT ![frame_of(a)] = fresh_locals]
    /\ UNCHANGED <<classifier_vars, main_vars>>

\* the rows the next step of an activation may read
CallRows(a) ==
    IF Len(calls[a].df) < 2 THEN {LeadRows[Len(calls[a].df) + 1]}
    ELSE IF Len(calls[a].df) < 2 + MaxMainRows THEN MainRows ELSE {}

\* lines 27-98: one iteration of the loop of activation a; an activation
\* that has read rows and not returned is interleaved with this step
CallStep(a, r) ==
    /\ calls[a].pc = "rows"
    /\ LET n == process_row(frames[frame_of(a)], Len(calls[a].df),
                            RowOf(r, MainWidth), calls[a].sheet_name)
       IN  /\ frames' = [frames EXCEPT ![frame_of(a)] = n]
           /\ calls' = [b \in DOMAIN calls |->
                           IF b = a
                           THEN [calls[a] EXCEPT
                                    !.df = Append(@, r),
                                    !.pc = IF n.err = "none" THEN "rows" ELSE n.err]
                           ELSE [calls[b] EXCEPT
                                    !.interleaved =
                                        @ \/ (calls[b].pc = "rows" /\ calls[b].df # << >>)]]
    /\ UNCHANGED <<classifier_vars, main_vars>>

\* lines 99-106: the rows of activation a are exhausted; assemble and return
CallReturn(a) ==
    /\ calls[a].pc = "rows"
    /\ LET L == frames[frame_of(a)]
           t == assemble(L.categories, L.recs, L.subs)
       IN  /\ calls' = [calls EXCEPT
                           ![a].pc = IF t.err = "none" THEN "returned" ELSE t.err,
                           ![a].result =
                               [categories |-> dump(t.recs, t.subs, t.tree,
                                                    Len(t.recs) + 1),
                                medicines |-> L.medicines]]
           /\ frames' = [frames EXCEPT ![frame_of(a)].recs = t.recs,
                                       ![frame_of(a)].subs = t.subs]
    /\ UNCHANGED <<classifier_vars, main_vars>>

NextSheets ==
    \/ \E a \in DOMAIN CallSheets : Call(a)
    \/ \E a \in DOMAIN CallSheets : \E r \in CallRows(a) : CallStep(a, r)
    \/ \E a \in DOMAIN CallSheets : CallReturn(a)

SpecSheets == InitSheets /\ [][NextSheets]_vars

----------------------------------------------------------------------------

(* Notions the properties are stated with *)

\* the record the flat mapping holds for a code
Flat(code) == recs[DictGet(categories, code)]

\* the references of the nodes of a dict of nodes, nested ones included
RECURSIVE TreeNodes(_, _)
TreeNodes(d, depth) ==
    IF depth = 0 THEN {}
    ELSE UNION {{d[j].v} \cup TreeNodes(subs[recs[d[j].v].subcategories], depth - 1) :
                j \in 1..Len(d)}

\* how many times a code is a key in a dict of nodes, nested dicts included
RECURSIVE Occurrences(_, _, _)
Occurrences(code, d, depth) ==
    IF depth = 0 \/ d = << >> THEN 0
    ELSE (IF d[1].k = code THEN 1 ELSE 0)
         + Occurrences(code, subs[recs[d[1].v].subcategories], depth - 1)
         + Occurrences(code, Tail(d), depth)

\* the medicines whose all_category_codes contains the code
ItemsUnder(code) ==
    {i \in 1..Len(medicines) :
        /\ "all_category_codes" \in DOMAIN medicines[i]
        /\ \E j \in 1..Len(medicines[i].all_category_codes) :
              medicines[i].all_category_codes[j] = code}

\* the header rows read so far: the positions in df of the rows from the
\* third on that are not fully empty and have a non-blank first cell
HeaderPositions ==
    {j \in 3..Len(df) :
        LET row == RowOf(df[j], ncols)
        IN  /\ \E c \in DOMAIN row : ~row[c].na
            /\ ~row[1].na
            /\ \E c \in DOMAIN row[1].s : row[1].s[c] \notin Whitespace}

\* the number of header rows among the first j rows
HeadersUpTo(j) == Cardinality({h \in HeaderPositions : h <= j})

\* a code occurs in two header rows
RepeatedCode == Len(categories) < Cardinality(HeaderPositions)

----------------------------------------------------------------------------
(* C1: count conservation.  When extract_categories_and_medicines has      *)
(* returned, every category of the returned nested tree has medicine_count *)
(* equal to the number of returned items whose all_category_codes contains *)
(* the category's code.  The code breaks this when a code is registered a  *)
(* second time: line 48 replaces the record and its count starts at 0.     *)
C1_CountConservation ==
    pc = "returned" =>
        \A n \in TreeNodes(sheet_data.categories, Len(recs) + 1) :
            recs[n].medicine_count = Cardinality(ItemsUnder(recs[n].code))

----------------------------------------------------------------------------
(* C2: lineage path consistency.  At the end of the classification pass,   *)
(* for every item with non-empty all_category_codes the first code is a    *)
(* category without parent, each consecutive pair (p, c) has               *)
(* categories[c].parent_code = p in the final flat mapping, and the last   *)
(* code is the item's category_code.  The code breaks this when a later    *)
(* header row registers a code of the path again under another parent.     *)
C2_LineagePath ==
    pc = "returned" =>
        \A i \in 1..Len(medicines) :
            ("all_category_codes" \in DOMAIN medicines[i]
             /\ medicines[i].all_category_codes # << >>) =>
                LET path == medicines[i].all_category_codes
                IN  /\ \A j \in 1..Len(path) : DictHas(categories, path[j])
                    /\ Flat(path[1]).parent_code = None
                    /\ \A j \in 1..(Len(path) - 1) :
                          Flat(path[j + 1]).parent_code = path[j]
                    /\ path[Len(path)] = medicines[i].category_code

----------------------------------------------------------------------------
(* C3: forest closure.  Every category code of the flat mapping occurs     *)
(* exactly once in the tree build_category_tree returns, as a top-level    *)
(* key or inside the subcategories of a node, and every key of the tree is *)
(* a code of the mapping.                                                  *)
C3_ForestClosure ==
    pc = "returned" =>
        /\ \A code \in DictKeys(categories) :
              Occurrences(code, sheet_data.categories, Len(recs) + 1) = 1
        /\ \A n \in TreeNodes(sheet_data.categories, Len(recs) + 1) :
              recs[n].code \in DictKeys(categories)

\* C3 witness: a returned tree with a root, a nested node and a second root
C3_Witness ==
    /\ pc = "returned"
    /\ Len(categories) = 3
    /\ Len(sheet_data.categories) = 2
    /\ \E j \in 1..2 : subs[recs[sheet_data.categories[j].v].subcategories] # << >>

----------------------------------------------------------------------------
(* C4: stack discipline.  The parent_code given to a header row is the     *)
(* code of the most recent earlier header row whose code is strictly       *)
(* shorter, and None if no earlier header row has a strictly shorter code. *)
(* The k-th record of the heap is the one the k-th header row registered.  *)

\* position in df of the k-th header row, and its code
HeaderPosition(k) == CHOOSE h \in HeaderPositions : HeadersUpTo(h) = k
HeaderCode(k) == strip(RowOf(df[HeaderPosition(k)], ncols)[1].s)

NearestShorter(k) ==
    LET shorter == {i \in 1..(k - 1) : Len(HeaderCode(i)) < Len(HeaderCode(k))}
    IN  IF shorter = {} THEN None
        ELSE HeaderCode(CHOOSE i \in shorter : \A h \in shorter : h <= i)

C4_StackDiscipline ==
    \A k \in 1..Cardinality(HeaderPositions) :
        /\ k <= Len(recs)
        /\ recs[k].code = HeaderCode(k)
        /\ recs[k].parent_code = NearestShorter(k)

\* C4 witness: header codes of lengths 1, 2, 2, 3, 1 with parents
\* none, first, first, third, none
C4_Witness ==
    /\ pc = "rows"
    /\ df = <<"hA", "item13", "hA", "hAB", "hBA", "hABA", "hB">>
    /\ recs[1].parent_code = None
    /\ recs[2].parent_code = <<"A">>
    /\ recs[3].parent_code = <<"A">>
    /\ recs[4].parent_code = <<"B", "A">>
    /\ recs[5].parent_code = None

----------------------------------------------------------------------------
(* C5: what the driver does with a sheet whose item list has an item       *)
(* without all_category_codes.                                             *)

\* the j-th sheet read returns an item without the field
LacksLineage(j) ==
    LET meds == Extracted[sheets_read[j]][sheet_names[j]].medicines
    IN  \E i \in 1..Len(meds) : "all_category_codes" \notin DOMAIN meds[i]

Written(j) == DictHas(files, sheet_names[j])

\* C5 as claimed: the sheet is rejected and every other sheet of the
\* workbook, before or after it, is processed and written.  main raises
\* ValueError out of the loop, so the sheets after it are never read.
C5_OtherSheetsUnaffected ==
    main_pc = "ValueError" =>
        /\ ~Written(sheet_i + 1)
        /\ \A j \in 1..Len(sheet_names) : j # sheet_i + 1 => Written(j)

\* C5 amended: a sheet with such an item makes the driver raise ValueError
\* and gets no output; the sheets before it have been processed and
\* written; the run ends there, no sheet after it is read or written.
C5_AbortEndsRun ==
    /\ \A j \in 1..Len(sheets_read) :
          LacksLineage(j) =>
              /\ main_pc = "ValueError"
              /\ j = sheet_i + 1
              /\ j = Len(sheets_read)
              /\ ~Written(j)
    /\ main_pc = "ValueError" =>
          /\ Len(sheets_read) = sheet_i + 1
          /\ LacksLineage(sheet_i + 1)
          /\ \A j \in 1..Len(sheet_names) : Written(j) <=> j <= sheet_i

\* C5 witness: the second of three sheets is rejected
C5_Witness ==
    /\ main_pc = "ValueError"
    /\ sheet_i = 1
    /\ Len(sheet_names) = 3
    /\ Written(1)

----------------------------------------------------------------------------
(* C6: assembly idempotence.  A second assembly of the same flat mapping   *)
(* yields a tree equal to the first at every node (code, name, level,      *)
(* parent_code, medicine_count, nesting), and leaves the first tree as it  *)
(* was dumped before the second run.                                       *)
C6_AssemblyIdempotent ==
    pc = "again" =>
        /\ dump(recs, subs, again.tree, Len(recs) + 1) = again.first
        /\ dump(recs, subs, sheet_data.categories, Len(recs) + 1) = again.first

\* C6 witness: assembled twice, with a nested category and counted items
C6_Witness ==
    /\ pc = "again"
    /\ \E j \in 1..Len(again.first) :
          /\ again.first[j].v.subcategories # << >>
          /\ again.first[j].v.medicine_count >= 2

----------------------------------------------------------------------------
(* C7: acyclicity.  From every category of the flat mapping the            *)
(* parent_code links reach a category without parent and never revisit a   *)
(* code; no node of the returned tree is nested below itself, and          *)
(* update_medicine_count_recursive ends on every root.                     *)

RECURSIVE ChainEnds(_, _)
ChainEnds(code, seen) ==
    IF code = None THEN seen # {}
    ELSE /\ code \notin seen
         /\ DictHas(categories, code)
         /\ ChainEnds(Flat(code).parent_code, seen \cup {code})

C7_Acyclic ==
    /\ \A code \in DictKeys(categories) : ChainEnds(code, {})
    /\ pc # "RecursionError"
    /\ pc = "returned" =>
          \A n \in TreeNodes(sheet_data.categories, Len(recs) + 1) :
              n \notin TreeNodes(subs[recs[n].subcategories], Len(recs) + 1)

\* C7 witness: a returned tree three levels deep from rows that repeat a code
C7_Witness ==
    /\ pc = "returned"
    /\ RepeatedCode
    /\ \E code \in DictKeys(categories) : Flat(code).level = 3

----------------------------------------------------------------------------
(* C8: no hard failure in the classifier.  The pass never ends in an       *)
(* exception; every code on the category stack is a key of the registry;   *)
(* a configured column at or beyond the row length is read as empty.       *)

BeyondRow(i) == i >= ncols

C8_NoHardFailure ==
    /\ pc \in {"rows", "returned", "again"}
    /\ \A j \in 1..Len(category_stack) : DictHas(categories, category_stack[j][1])
    /\ \A i \in 1..Len(medicines) :
          LET m == medicines[i]
              cm == col_map_of(sheet_name)
          IN  /\ ("dosage" \in DOMAIN cm /\ BeyondRow(cm.dosage)) => m.dosage = EmptyStr
              /\ ("validity_period" \in DOMAIN cm /\ BeyondRow(cm.validity_period))
                     => m.validity_period = EmptyStr
              /\ ("note" \in DOMAIN cm /\ ~cm.note.list /\ BeyondRow(cm.note.v))
                     => m.note = EmptyStr
              /\ ("payment_standard" \in DOMAIN cm
                  /\ \A j \in 1..Len(cm.payment_standard) : BeyondRow(cm.payment_standard[j]))
                     => m.payment_standard = << >>

\* C8 witness: an item of a 13-column sheet, attached to a category, whose
\* note, validity and payment columns lie beyond the row
C8_Witness ==
    /\ pc = "rows"
    /\ ncols = 13
    /\ sheet_name = "xieyi_xiyao"
    /\ \E i \in 1..Len(medicines) :
          /\ "category_code" \in DOMAIN medicines[i]
          /\ medicines[i].note = EmptyStr
          /\ medicines[i].payment_standard = << >>

----------------------------------------------------------------------------
(* C9: item sequence.  The medicines are, in row order, exactly the rows   *)
(* with index at least 2 that are not fully empty, have an empty cleaned   *)
(* first cell and a non-empty cleaned value in a configured name column.   *)

Blank(c) == c.na \/ \A j \in DOMAIN c.s : c.s[j] \in Whitespace

\* positions in df (index + 1) of the rows the claim says give an item
ItemPositions ==
    {j \in 3..Len(df) :
        LET row == RowOf(df[j], ncols)
            cm == col_map_of(sheet_name)
        IN  /\ \E c \in DOMAIN row : ~row[c].na
            /\ Blank(row[1])
            /\ "name" \in DOMAIN cm
            /\ \E n \in 1..Len(cm.name) :
                  cm.name[n] < Len(row) /\ ~Blank(row[cm.name[n] + 1])}

C9_ItemSequence ==
    /\ Len(medicines) = Cardinality(ItemPositions)
    /\ \A i \in 1..Len(medicines) :
          LET j == CHOOSE q \in ItemPositions :
                      Cardinality({x \in ItemPositions : x <= q}) = i
          IN  medicines[i].id = <<sheet_name, j - 1>>

\* C9 witness: two items from a sheet that also has a header row, a fully
\* empty row and a row without name
C9_Witness ==
    /\ pc = "rows"
    /\ Len(medicines) = 2
    /\ Cardinality(HeaderPositions) = 1
    /\ Len(df) = 6
    /\ \E j \in 3..6 : df[j] \in {"empty", "item12"} /\ j \notin ItemPositions

----------------------------------------------------------------------------
(* C10: category record lifecycle.  Once a header row has registered a     *)
(* code, no later row of the sheet changes the code, name, level or        *)
(* parent_code the flat mapping holds for it, and its direct               *)
(* medicine_count never decreases during the pass.  The code breaks this   *)
(* when a later header row carries the same code: line 48 overwrites the   *)
(* entry with a new record whose count is 0.                               *)
C10_RecordLifecycle ==
    [][(pc = "rows" /\ pc' = "rows") =>
        \A code \in DictKeys(categories) :
            /\ DictHas(categories', code)
            /\ LET old == Flat(code)
                   new == recs'[DictGet(categories', code)]
               IN  /\ new.code = old.code
                   /\ new.name = old.name
                   /\ new.level = old.level
                   /\ new.parent_code = old.parent_code
                   /\ new.medicine_count >= old.medicine_count]_vars

----------------------------------------------------------------------------
(* C17: stack shape.  After every row the code lengths of the entries of   *)
(* category_stack are strictly increasing from bottom to top, and the      *)
(* entry at position i (bottom = 1) carries level i.                       *)
C17_StackShape ==
    \A i \in 1..Len(category_stack) :
        /\ category_stack[i][3] = i
        /\ i > 1 => Len(category_stack[i - 1][1]) < Len(category_stack[i][1])

\* C17 witness: a stack of three entries left by a header row that popped
\* entries of an earlier branch
C17_Witness ==
    /\ pc = "rows"
    /\ Len(category_stack) = 3
    /\ Cardinality(HeaderPositions) > 3
    /\ Len(df) \in HeaderPositions

----------------------------------------------------------------------------
(* C18: lineage presence.  Once the first header row has been processed    *)
(* the stack is never empty again; so a medicine lacks all_category_codes  *)
(* exactly when its row comes before the first header row, and every       *)
(* medicine after the first header row has category_code equal to the code *)
(* of the most recent header row before it.                                *)

\* the position in df of the row medicine i was read from
ItemRowPosition(i) == medicines[i].id[2] + 1

\* the header rows before position j
HeadersBefore(j) == {h \in HeaderPositions : h < j}

\* the code of the header row at position h, as line 32 reads it
CodeOfHeader(h) == first_col(RowOf(df[h], ncols))

C18_LineagePresence ==
    /\ HeaderPositions # {} => category_stack # << >>
    /\ \A i \in 1..Len(medicines) :
          LET before == HeadersBefore(ItemRowPosition(i))
          IN  /\ "all_category_codes" \notin DOMAIN medicines[i] <=> before = {}
              /\ before # {} =>
                    LET last == CHOOSE h \in before : \A g \in before : g <= h
                    IN  /\ "category_code" \in DOMAIN medicines[i]
                        /\ medicines[i].category_code = CodeOfHeader(last)

\* C18 witness: a medicine read before the first header row, and a medicine
\* read after a header row that popped the stack
C18_Witness ==
    /\ pc = "rows"
    /\ \E i, k \in 1..Len(medicines) :
          /\ HeadersBefore(ItemRowPosition(i)) = {}
          /\ Cardinality(HeadersBefore(ItemRowPosition(k))) >= 2
          /\ Len(medicines[k].all_category_codes) = 1

----------------------------------------------------------------------------
(* C14: item-row effect.  Processing a named item row while the stack is   *)
(* non-empty appends one medicine whose category_code is the code on top   *)
(* of the stack and whose all_category_codes are the stack's codes from    *)
(* bottom to top, raises the direct medicine_count of the top category by  *)
(* exactly one, and leaves the stack, the count of every other category    *)
(* and every medicine emitted before unchanged.                            *)

\* the step reads a named item row while the stack is non-empty
ItemRowStep ==
    /\ pc = "rows" /\ pc' = "rows"
    /\ Len(df') = Len(df) + 1
    /\ Len(df') \in ItemPositions'
    /\ category_stack # << >>

C14_ItemRowEffect ==
    [][ItemRowStep =>
        LET top == Top(category_stack)[1]
            item == medicines'[Len(medicines')]
        IN  /\ Len(medicines') = Len(medicines) + 1
            /\ item.category_code = top
            /\ item.all_category_codes =
                  [j \in 1..Len(category_stack) |-> category_stack[j][1]]
            /\ recs'[DictGet(categories', top)].medicine_count =
                  Flat(top).medicine_count + 1
            /\ category_stack' = category_stack
            /\ categories' = categories
            /\ \A code \in DictKeys(categories) \ {top} :
                  recs'[DictGet(categories', code)].medicine_count =
                      Flat(code).medicine_count
            /\ SubSeq(medicines', 1, Len(medicines)) = medicines]_vars

\* C14 witness: the second item row under a category nested in another one
C14_Witness ==
    /\ pc = "rows"
    /\ Len(df) \in ItemPositions
    /\ Len(category_stack) = 2
    /\ Flat(Top(category_stack)[1]).medicine_count = 2
    /\ Len(medicines) >= 2

----------------------------------------------------------------------------
(* C13: nesting placement.  In the tree build_category_tree returns, a     *)
(* category is top-level exactly when its parent_code is None or is not a  *)
(* key of the flat mapping; every other category is in the subcategories   *)
(* dict of exactly the node whose code equals its parent_code, under its   *)
(* own code.                                                               *)

\* the node copied from the j-th record of the flat mapping: line 110 makes
\* the copies in key order, after the records of the flat mapping
AssembledNode(j) == Len(categories) + j

\* the children dict of the node of the j-th key
ChildrenOf(j) == subs[recs[AssembledNode(j)].subcategories]

\* the parent_code of the j-th key is None or no key of the flat mapping
Parentless(j) ==
    \/ recs[categories[j].v].parent_code = None
    \/ ~DictHas(categories, recs[categories[j].v].parent_code)

C13_NestingPlacement ==
    pc = "returned" =>
        \A j \in 1..Len(categories) :
            LET code == categories[j].k
                parent_code == recs[categories[j].v].parent_code
            IN  /\ DictHas(sheet_data.categories, code) <=> Parentless(j)
                /\ DictHas(sheet_data.categories, code) =>
                      DictGet(sheet_data.categories, code) = AssembledNode(j)
                /\ \A m \in 1..Len(categories) :
                      /\ DictHas(ChildrenOf(m), code) <=>
                            (~Parentless(j) /\ categories[m].k = parent_code)
                      /\ DictHas(ChildrenOf(m), code) =>
                            DictGet(ChildrenOf(m), code) = AssembledNode(j)

\* C13 witness: a root whose parent_code is no key of the mapping, with a
\* category nested under it
C13_Witness ==
    /\ pc = "returned"
    /\ \E j, m \in 1..Len(categories) :
          /\ recs[categories[j].v].parent_code = AbsentCode
          /\ DictHas(sheet_data.categories, categories[j].k)
          /\ recs[categories[m].v].parent_code = categories[j].k
          /\ DictHas(ChildrenOf(j), categories[m].k)

----------------------------------------------------------------------------
(* C15: assembly leaves its input unchanged.  After build_category_tree    *)
(* and the count pass every record of the flat mapping still has its       *)
(* direct medicine_count and an empty subcategories dict, and no node of   *)
(* the returned tree shares its subcategories dict with a record of the    *)
(* flat mapping or with another node.                                      *)

\* the step runs lines 100-102 on the flat mapping
AssemblyStep ==
    \/ pc = "rows" /\ pc' = "returned"
    \/ pc = "returned" /\ pc' = "again"

\* the references of the nodes of a dict of nodes in given heaps, nested
\* ones included
RECURSIVE NodesIn(_, _, _, _)
NodesIn(heap_recs, heap_subs, d, depth) ==
    IF depth = 0 THEN {}
    ELSE UNION {{d[j].v} \cup NodesIn(heap_recs, heap_subs,
                                      heap_subs[heap_recs[d[j].v].subcategories],
                                      depth - 1) :
                j \in 1..Len(d)}

C15_InputUnchanged ==
    [][AssemblyStep =>
        LET tree == IF pc' = "returned" THEN sheet_data'.categories ELSE again'.tree
            nodes == NodesIn(recs', subs', tree, Len(recs') + 1)
            flat == {categories[j].v : j \in 1..Len(categories)}
        IN  /\ categories' = categories
            /\ \A f \in flat :
                  /\ recs'[f] = recs[f]
                  /\ subs'[recs'[f].subcategories] = << >>
            /\ \A n \in nodes :
                  /\ \A f \in flat : recs'[n].subcategories # recs'[f].subcategories
                  /\ \A m \in nodes \ {n} :
                        recs'[n].subcategories # recs'[m].subcategories]_vars

\* C15 witness: an assembled tree with a nested node that counts medicines
\* of its own, the flat record of its parent still without them
C15_Witness ==
    /\ pc = "returned"
    /\ \E n \in TreeNodes(sheet_data.categories, Len(recs) + 1) :
          /\ subs[recs[n].subcategories] # << >>
          /\ recs[n].medicine_count > Flat(recs[n].code).medicine_count
          /\ Flat(recs[n].code).medicine_count > 0

----------------------------------------------------------------------------
(* C16: level matches depth.  In the assembled tree every top-level        *)
(* category has level 1 and every nested category has the level of the     *)
(* node it is nested under plus one.  The code breaks this when a header   *)
(* row registers a code again at another depth: the categories registered  *)
(* under the code before keep their level and hang under the new record.   *)
C16_LevelMatchesDepth ==
    pc = "returned" =>
        /\ \A j \in 1..Len(sheet_data.categories) :
              recs[sheet_data.categories[j].v].level = 1
        /\ \A n \in TreeNodes(sheet_data.categories, Len(recs) + 1) :
              \A j \in 1..Len(subs[recs[n].subcategories]) :
                  recs[subs[recs[n].subcategories][j].v].level = recs[n].level + 1

----------------------------------------------------------------------------
(* C12: cumulative count formula.  After update_medicine_count_recursive   *)
(* has run on every root, the medicine_count of every node equals its      *)
(* direct count before the pass plus the sum of the final medicine_count   *)
(* of its immediate children (a node without children keeps its direct     *)
(* count), and the pass has visited every node of the tree exactly once.   *)

\* the sum of the medicine_count of the nodes of a dict of nodes
RECURSIVE SumOfCounts(_)
SumOfCounts(d) ==
    IF d = << >> THEN 0
    ELSE recs[d[1].v].medicine_count + SumOfCounts(Tail(d))

C12_CumulativeCount ==
    pc = "returned" =>
        LET nodes == TreeNodes(sheet_data.categories, Len(recs) + 1)
        IN  /\ \A n \in nodes :
                  recs[n].medicine_count =
                      Flat(recs[n].code).medicine_count
                      + SumOfCounts(subs[recs[n].subcategories])
            /\ Len(visited) = Cardinality(nodes)
            /\ {visited[i] : i \in 1..Len(visited)} = nodes

\* C12 witness: a chain of three nodes, each with a direct count of its own
C12_Witness ==
    /\ pc = "returned"
    /\ Len(visited) = 3
    /\ \E r \in 1..Len(sheet_data.categories) :
          LET root == sheet_data.categories[r].v
              below == subs[recs[root].subcategories]
          IN  /\ recs[root].medicine_count = 3
              /\ Len(below) = 1
              /\ recs[below[1].v].medicine_count = 2
              /\ Flat(recs[root].code).medicine_count = 1

----------------------------------------------------------------------------
(* C11: sheet independence.  The categories and medicines returned for a   *)
(* sheet depend only on that sheet's rows and name: whether the sheet is   *)
(* processed after other sheets or interleaved with them, the value        *)
(* returned is the value returned when the sheet is processed alone.       *)
C11_SheetIndependence ==
    \A a \in DOMAIN calls :
        calls[a].pc = "returned" =>
            LET alone == extract_categories_and_medicines(
                             calls[a].df, MainWidth, calls[a].sheet_name)
            IN  calls[a].result = [categories |-> alone.categories,
                                   medicines |-> alone.medicines]

\* C11 witness: two sheets with different rows have returned categories and
\* medicines, each after steps of the other fell between its own
C11_Witness ==
    /\ \A a \in DOMAIN calls :
          /\ calls[a].pc = "returned"
          /\ calls[a].interleaved
          /\ calls[a].result.categories # << >>
          /\ calls[a].result.medicines # << >>
    /\ \E a, b \in DOMAIN calls : calls[a].df # calls[b].df

====
